---- MODULE Spec2Model ----
(***************************************************************************)
(* Model of gds/pub/burp/burp.py: the Burp transaction record (its          *)
(* constructor, __process, the accessors) and Scanner.replay.               *)
(*                                                                         *)
(* Python values are represented as follows.                               *)
(*   str      a sequence of one-character strings, "ab" is <<"a","b">>     *)
(*   None     the one-element sequence <<"None">> (no str has an element   *)
(*            longer than one character, so it is no str)                  *)
(*   dict     a function whose DOMAIN is the set of keys present           *)
(*   int      an integer                                                   *)
(*   a value of another type (an int where a str is expected): NonString   *)
(***************************************************************************)
EXTENDS Integers, Sequences, FiniteSets, TLC

\* Longest raw request/response body the inputs hold.
MaxBody == 2

\* Most calls (accessors, replay) made on one record.
MaxCalls == 1

None == <<"None">>
NonString == <<"NonString">>

\* bool(v) for a value that is a str or None.
Truthy(v) == v # None /\ v # <<>>

EmptyDict == [k \in {} |-> <<>>]

\* d.get(k, default)
get(d, k, default) == IF k \in DOMAIN d THEN d[k] ELSE default

\* d[k] = v
Put(d, k, v) == [x \in DOMAIN d \cup {k} |-> IF x = k THEN v ELSE d[x]]

\* d.update(e)
update(d, e) == [x \in DOMAIN d \cup DOMAIN e |-> IF x \in DOMAIN e THEN e[x] ELSE d[x]]

\* s[:n], Python's slice: a negative n counts from the end.
SliceTo(s, n) ==
    IF n >= 0
    THEN SubSeq(s, 1, IF n < Len(s) THEN n ELSE Len(s))
    ELSE SubSeq(s, 1, IF Len(s) + n > 0 THEN Len(s) + n ELSE 0)

Digits == <<"0", "1", "2", "3", "4", "5", "6", "7", "8", "9">>

IsDigit(c) == \E i \in 1..Len(Digits) : Digits[i] = c

DigitVal(c) == (CHOOSE i \in 1..Len(Digits) : Digits[i] = c) - 1

\* s.strip() of blanks.
RECURSIVE strip(_)
strip(s) ==
    IF s = <<>> THEN s
    ELSE IF s[1] = " " THEN strip(Tail(s))
    ELSE IF s[Len(s)] = " " THEN strip(SubSeq(s, 1, Len(s) - 1))
    ELSE s

\* The digits of an int() literal: the text after the blanks and an optional sign.
Unsigned(s) ==
    LET t == strip(s) IN IF Len(t) > 0 /\ t[1] \in {"+", "-"} THEN Tail(t) ELSE t

\* Whether int(s) returns (otherwise it raises ValueError).
IsIntLiteral(s) ==
    /\ Len(Unsigned(s)) > 0
    /\ \A i \in 1..Len(Unsigned(s)) : IsDigit(Unsigned(s)[i])

RECURSIVE DecVal(_)
DecVal(s) == IF s = <<>> THEN 0 ELSE 10 * DecVal(SubSeq(s, 1, Len(s) - 1)) + DigitVal(s[Len(s)])

\* int(s) for a literal s.
int(s) == IF strip(s)[1] = "-" THEN 0 - DecVal(Unsigned(s)) ELSE DecVal(Unsigned(s))

\* str(n) for n >= 0.
RECURSIVE str(_)
str(n) == IF n < 10 THEN <<Digits[n + 1]>> ELSE str(n \div 10) \o <<Digits[(n % 10) + 1]>>

\* Whether the str t occurs in the str s: t in s.
Contains(s, t) ==
    \E i \in 1..(Len(s) - Len(t) + 1) : SubSeq(s, i, i + Len(t) - 1) = t

\* s.split(c): the fields between the separators, empty fields kept.
RECURSIVE split_sep(_, _)
split_sep(s, c) ==
    IF \A i \in 1..Len(s) : s[i] # c
    THEN <<s>>
    ELSE LET i == CHOOSE j \in 1..Len(s) : s[j] = c /\ \A k \in 1..(j - 1) : s[k] # c
         IN  <<SubSeq(s, 1, i - 1)>> \o split_sep(SubSeq(s, i + 1, Len(s)), c)

\* s.split(): the words between runs of blanks.
RECURSIVE split(_)
split(s) ==
    IF s = <<>> THEN <<>>
    ELSE IF s[1] = " " THEN split(Tail(s))
    ELSE LET parts == split_sep(s, " ")
         IN  <<parts[1]>> \o split(SubSeq(s, Len(parts[1]) + 1, Len(s)))

\* s.startswith(t)
startswith(s, t) == Len(s) >= Len(t) /\ SubSeq(s, 1, Len(t)) = t

\* "/".join(parts)
RECURSIVE join(_, _)
join(parts, c) ==
    IF parts = <<>> THEN <<>>
    ELSE IF Len(parts) = 1 THEN parts[1]
    ELSE parts[1] \o <<c>> \o join(Tail(parts), c)

\* s.find(c) + 1: the first position of c in s, 0 if there is none.
find(s, c) ==
    IF \A i \in 1..Len(s) : s[i] # c THEN 0
    ELSE CHOOSE j \in 1..Len(s) : s[j] = c /\ \A k \in 1..(j - 1) : s[k] # c

(***************************************************************************)
(* urlparse, of Python 2's standard library, on URLs without parameters,   *)
(* query or fragment: a URL is split into <<scheme, netloc, path>>.        *)
(***************************************************************************)
scheme_chars ==
    {"a", "b", "c", "d", "e", "f", "g", "h", "i", "j", "k", "l", "m", "n", "o",
     "p", "q", "r", "s", "t", "u", "v", "w", "x", "y", "z", "+", "-", "."}

urlparse(u) ==
    LET i         == find(u, ":")
        hasScheme == i > 1 /\ \A k \in 1..(i - 1) : u[k] \in scheme_chars
        scheme    == IF hasScheme THEN SubSeq(u, 1, i - 1) ELSE <<>>
        rest      == IF hasScheme THEN SubSeq(u, i + 1, Len(u)) ELSE u
        hasNetloc == startswith(rest, <<"/", "/">>)
        tail      == SubSeq(rest, 3, Len(rest))
        j         == find(tail, "/")
    IN  IF hasNetloc
        THEN <<scheme,
               IF j = 0 THEN tail ELSE SubSeq(tail, 1, j - 1),
               IF j = 0 THEN <<>> ELSE SubSeq(tail, j, Len(tail))>>
        ELSE <<scheme, <<>>, rest>>

\* urlunparse / ParseResult.geturl()
geturl(p) ==
    LET scheme == p[1]
        netloc == p[2]
        path   == p[3]
        url1   == IF netloc # <<>> \/ (scheme # <<>> /\ ~startswith(path, <<"/", "/">>))
                  THEN <<"/", "/">> \o netloc
                       \o (IF path # <<>> /\ path[1] # "/" THEN <<"/">> ELSE <<>>) \o path
                  ELSE path
    IN  IF scheme # <<>> THEN scheme \o <<":">> \o url1 ELSE url1

\* urljoin(base, url); the "." and ".." segments of a relative path are not
\* resolved, no input holds any.
urljoin(base, url) ==
    IF ~Truthy(base) THEN url
    ELSE IF ~Truthy(url) THEN base
    ELSE LET b       == urlparse(base)
             u       == urlparse(url)
             scheme  == IF u[1] = <<>> THEN b[1] ELSE u[1]
             dirs    == split_sep(b[3], "/")
             merged  == SubSeq(dirs, 1, Len(dirs) - 1) \o split_sep(u[3], "/")
         IN  IF scheme # b[1] THEN url
             ELSE IF u[2] # <<>> THEN geturl(<<scheme, u[2], u[3]>>)
             ELSE IF startswith(u[3], <<"/">>) THEN geturl(<<scheme, b[2], u[3]>>)
             ELSE IF u[3] = <<>> THEN geturl(<<scheme, b[2], b[3]>>)
             ELSE geturl(<<scheme, b[2], join(merged, "/")>>)

(***************************************************************************)
(* datetime.time(hour, minute, second) and datetime.strptime               *)
(***************************************************************************)
\* Whether datetime.time(hour, minute, second) returns (else ValueError).
ValidTime(hour, minute, second) ==
    /\ 0 <= hour /\ hour < 24
    /\ 0 <= minute /\ minute < 60
    /\ 0 <= second /\ second < 60

Weekdays ==
    <<<<"M", "o", "n">>, <<"T", "u", "e">>, <<"W", "e", "d">>, <<"T", "h", "u">>,
      <<"F", "r", "i">>, <<"S", "a", "t">>, <<"S", "u", "n">>>>

Months ==
    <<<<"J", "a", "n">>, <<"F", "e", "b">>, <<"M", "a", "r">>, <<"A", "p", "r">>,
      <<"M", "a", "y">>, <<"J", "u", "n">>, <<"J", "u", "l">>, <<"A", "u", "g">>,
      <<"S", "e", "p">>, <<"O", "c", "t">>, <<"N", "o", "v">>, <<"D", "e", "c">>>>

Zones == {<<"G", "M", "T">>, <<"U", "T", "C">>}

IsNumber(s) == Len(s) > 0 /\ \A i \in 1..Len(s) : IsDigit(s[i])

\* Whether strptime(s, '%a, %d %b %Y %H:%M:%S %Z') returns for the str s
\* (else ValueError). The day is checked against 1..31, not the month's length.
MatchesHttpDate(s) ==
    LET w == split(s)
        t == IF Len(w) = 6 THEN split_sep(w[5], ":") ELSE <<>>
    IN  /\ Len(w) = 6
        /\ \E i \in 1..Len(Weekdays) : w[1] = Weekdays[i] \o <<",">>
        /\ IsNumber(w[2]) /\ Len(w[2]) <= 2 /\ DecVal(w[2]) \in 1..31
        /\ \E i \in 1..Len(Months) : w[3] = Months[i]
        /\ IsNumber(w[4]) /\ Len(w[4]) = 4
        /\ Len(t) = 3
        /\ \A i \in 1..3 : IsNumber(t[i]) /\ Len(t[i]) <= 2
        /\ DecVal(t[1]) < 24 /\ DecVal(t[2]) < 60 /\ DecVal(t[3]) <= 61
        /\ w[6] \in Zones

\* The datetime strptime returns: <<year, month, day, hour, minute, second>>.
strptime(s) ==
    LET w == split(s)
        t == split_sep(w[5], ":")
    IN  <<DecVal(w[4]), CHOOSE i \in 1..Len(Months) : w[3] = Months[i], DecVal(w[2]),
          DecVal(t[1]), DecVal(t[2]), DecVal(t[3])>>

(***************************************************************************)
(* utils.parse_headers and utils.parse_parameters                          *)
(***************************************************************************)
\* name.title() on the header names the inputs hold.
title(name) ==
    CASE name \in {"content-length", "CONTENT-LENGTH", "Content-Length"} -> "Content-Length"
      [] name \in {"date", "DATE", "Date"} -> "Date"
      [] OTHER -> name

\* The header mapping with every key title-cased.
parse_headers(headers) ==
    [k \in {title(n) : n \in DOMAIN headers} |->
        headers[CHOOSE n \in DOMAIN headers : title(n) = k]]

\* What the parameter parser reads of the record it is given: the parameters
\* are a function of these and of nothing else.
parse_parameters(rec) ==
    [method  |-> rec._request["method"],
     headers |-> rec._request["headers"],
     url     |-> rec.url,
     body    |-> rec._request["body"]]

(***************************************************************************)
(* class Burp                                                              *)
(***************************************************************************)
\* What a call gives back: the value it returns, or the exception it raises.
Ret(v) == [raised |-> FALSE, value |-> v]

Raised(type) == [raised |-> TRUE, value |-> type]

\* d[k], which raises KeyError when d has no key k.
item(d, k) == IF k \in DOMAIN d THEN Ret(d[k]) ELSE Raised("KeyError")

\* The state of a constructor call: the object so far and the exception raised.
NoErr == [type |-> "", line |-> 0]

Raise(st, type, line) == [st EXCEPT !.err = [type |-> type, line |-> line]]

\* The value of an attribute that was never assigned.
NoAttr == <<"NoAttr">>

\* Burp.__init__, the assignments before __process.
NewBurp(index) ==
    [index      |-> index,
     host       |-> None,
     ip_address |-> None,
     burptime   |-> None,
     datetime   |-> None,
     time       |-> NoAttr,
     _request   |-> EmptyDict,
     _response  |-> EmptyDict,
     url        |-> None,
     parameters |-> EmptyDict,
     replayed   |-> <<>>]

get_request_body(self) == item(self._request, "body")

get_request_method(self) == item(self._request, "method")

get_request_version(self) == item(self._request, "version")

get_request_headers(self) == item(self._request, "headers")

get_request_header(self, name, default) ==
    LET h == item(self._request, "headers")
    IN  IF h.raised THEN h ELSE Ret(get(h.value, title(name), default))

get_request_path(self) == item(self._request, "path")

get_response_version(self) == item(self._response, "version")

get_response_status(self) == item(self._response, "status")

get_response_reason(self) == item(self._response, "reason")

get_response_headers(self) == item(self._response, "headers")

get_response_header(self, name, default) ==
    LET h == item(self._response, "headers")
    IN  IF h.raised THEN h ELSE Ret(get(h.value, title(name), default))

get_response_body(self) == item(self._response, "body")

Burp__len__(self) ==
    LET b == get_response_body(self)
    IN  IF b.raised THEN b ELSE Ret(Len(b.value))

\* __process, lines 72-73
copy_host(st, data) ==
    [st EXCEPT !.self.host = get(data, "host", None),
               !.self.ip_address = get(data, "ip_address", None)]

\* __process, lines 75-81
fill_request(st, data) ==
    IF st.err # NoErr THEN st
    ELSE IF "request" \notin DOMAIN data THEN Raise(st, "KeyError", 76)
    ELSE LET r == data["request"]
         IN  [st EXCEPT !.self._request =
                 update(@, [method  |-> get(r, "method", None),
                            path    |-> get(r, "path", None),
                            version |-> get(r, "version", None),
                            headers |-> parse_headers(get(r, "headers", EmptyDict)),
                            body    |-> get(r, "body", <<>>)])]

\* __process, lines 83-89
fill_response(st, data) ==
    IF st.err # NoErr THEN st
    ELSE IF "response" \notin DOMAIN data THEN Raise(st, "KeyError", 84)
    ELSE LET r == data["response"]
         IN  IF "status" \in DOMAIN r /\ ~IsIntLiteral(r["status"])
             THEN Raise(st, "ValueError", 85)
             ELSE [st EXCEPT !.self._response =
                     update(@, [version |-> get(r, "version", None),
                                status  |-> IF "status" \in DOMAIN r THEN int(r["status"]) ELSE 0,
                                reason  |-> get(r, "reason", None),
                                headers |-> parse_headers(get(r, "headers", EmptyDict)),
                                body    |-> get(r, "body", <<>>)])]

\* __process, lines 91-106
parse_date(st) ==
    IF st.err # NoErr THEN st
    ELSE IF "Date" \notin DOMAIN get_response_headers(st.self).value THEN st
    ELSE LET req_date == get_response_header(st.self, "Date", <<>>).value
         IN  IF req_date # NonString /\ MatchesHttpDate(req_date)
             THEN [st EXCEPT !.self.datetime = strptime(req_date)]
             ELSE [st EXCEPT !.self.datetime = None]

\* to_24h with the PM test off by one: 12 PM is moved to hour 24.
to_24h_noon_shifted(hour, am_pm) ==
    IF hour <= 12 /\ am_pm = <<"P", "M">> THEN hour + 12
    ELSE IF hour = 12 /\ am_pm = <<"A", "M">> THEN 0
    ELSE hour

\* __process, lines 116-119
to_24h(hour, am_pm) ==
    IF hour < 12 /\ am_pm = <<"P", "M">> THEN hour + 12
    ELSE IF hour = 12 /\ am_pm = <<"A", "M">> THEN 0
    ELSE hour

\* __process, lines 108-124
parse_burptime(st, data) ==
    IF st.err # NoErr THEN st
    ELSE LET burptime == get(data, "time", None)
             st1      == [st EXCEPT !.self.burptime = burptime]
             words    == split(burptime)
             fields   == split_sep(words[1], ":")
             parsed   == /\ Len(words) = 2
                         /\ \A i \in 1..Len(fields) : IsIntLiteral(fields[i])
                         /\ Len(fields) = 3
             hour     == to_24h(int(fields[1]), words[2])
         IN  IF ~Truthy(burptime) THEN st1
             ELSE IF burptime = NonString THEN Raise(st1, "AttributeError", 114)
             ELSE IF parsed /\ ValidTime(hour, int(fields[2]), int(fields[3]))
             THEN [st1 EXCEPT !.self.time = <<hour, int(fields[2]), int(fields[3])>>]
             ELSE [st1 EXCEPT !.self.time = <<0, 0, 0>>]

\* __process, line 126
resolve_url(st) ==
    IF st.err # NoErr THEN st
    ELSE LET joined == urljoin(st.self.host, get(st.self._request, "path", <<"/">>))
         IN  IF joined = None THEN Raise(st, "AttributeError", 126)
             ELSE [st EXCEPT !.self.url = urlparse(joined)]

\* __process, line 127
derive_parameters(st) ==
    IF st.err # NoErr THEN st
    ELSE [st EXCEPT !.self.parameters = parse_parameters(st.self)]

\* reconcile_response with the slice one byte too long.
reconcile_response_off_by_one(st) ==
    IF st.err # NoErr THEN st
    ELSE LET header == get_response_header(st.self, "Content-Length", <<>>).value
         IN  IF ~Truthy(header) THEN st
             ELSE IF ~IsIntLiteral(header) THEN Raise(st, "ValueError", 133)
             ELSE IF Burp__len__(st.self).value # int(header)
             THEN [st EXCEPT !.self._response["body"] = SliceTo(@, int(header) + 1)]
             ELSE st

\* __process, lines 132-136
reconcile_response(st) ==
    IF st.err # NoErr THEN st
    ELSE LET header == get_response_header(st.self, "Content-Length", <<>>).value
         IN  IF ~Truthy(header) THEN st
             ELSE IF ~IsIntLiteral(header) THEN Raise(st, "ValueError", 133)
             ELSE IF Burp__len__(st.self).value # int(header)
             THEN [st EXCEPT !.self._response["body"] = SliceTo(@, int(header))]
             ELSE st

\* __process, lines 138-143
reconcile_request(st) ==
    IF st.err # NoErr THEN st
    ELSE LET header == get_request_header(st.self, "Content-Length", <<>>).value
         IN  IF ~Truthy(header) THEN st
             ELSE IF ~IsIntLiteral(header) THEN Raise(st, "ValueError", 139)
             ELSE IF /\ Len(get_request_body(st.self).value) # int(header)
                     /\ ~Contains(header, <<"a", "m", "f">>)
             THEN [st EXCEPT !.self._request["body"] = SliceTo(@, int(header))]
             ELSE st

Burp__process(st, data) ==
    reconcile_request(reconcile_response(derive_parameters(resolve_url(
        parse_burptime(parse_date(fill_response(fill_request(copy_host(st, data), data), data)),
                       data)))))

\* Burp(data, index)
Burp__init__(data, index) ==
    LET st == [self |-> NewBurp(index), err |-> NoErr]
    IN  IF data.isDict THEN Burp__process(st, data.d) ELSE st

(***************************************************************************)
(* class Scanner                                                           *)
(***************************************************************************)
\* deepcopy that hands back the object itself.
deepcopy_aliased(ref) == ref

\* copy.deepcopy of the object ref names: a new object, named "copy".
deepcopy(ref) == "copy"

\* sets_content_length without the test of the body.
sets_content_length_any_body(method, body) == method = <<"P", "O", "S", "T">>

\* replay, line 363: method == "POST" and body
sets_content_length(method, body) == method = <<"P", "O", "S", "T">> /\ Truthy(body)

\* Scanner.replay(request, **kw). The dicts the call can reach are the
\* objects "self" (the record's request headers), "arg" (the headers the
\* caller passed) and "copy"; objs is what they hold when the call returns.
replay(request, kw) ==
    LET url     == IF "url" \in DOMAIN kw THEN Ret(kw["url"])
                   ELSE IF request.url = None THEN Raised("AttributeError")
                   ELSE Ret(geturl(request.url))
        method  == IF "method" \in DOMAIN kw THEN Ret(kw["method"])
                   ELSE get_request_method(request)
        body    == IF "body" \in DOMAIN kw THEN Ret(kw["body"])
                   ELSE get_request_body(request)
        own     == get_request_headers(request)
        objs0   == [self |-> IF own.raised THEN EmptyDict ELSE own.value,
                    arg  |-> get(kw, "headers", EmptyDict),
                    copy |-> IF own.raised THEN EmptyDict ELSE own.value]
        headers == IF "headers" \in DOMAIN kw THEN "arg" ELSE deepcopy("self")
        objs1   == IF sets_content_length(method.value, body.value)
                   THEN [objs0 EXCEPT ![headers] =
                            update(@, [k \in {"Content-Length"} |-> str(Len(body.value))])]
                   ELSE objs0
    IN  IF url.raised THEN url
        ELSE IF method.raised THEN method
        ELSE IF body.raised THEN body
        ELSE IF "headers" \notin DOMAIN kw /\ own.raised THEN own
        ELSE [raised |-> FALSE,
              value  |-> [url |-> url.value, method |-> method.value,
                          body |-> body.value, headers |-> objs1[headers]],
              objs   |-> objs1]

(***************************************************************************)
(* The raw records given to the constructor, and the arguments of replay    *)
(***************************************************************************)
\* A key left out of a raw record.
Absent == <<"Absent">>

\* d with d[k] = v, or d itself when the key is left out.
Opt(d, k, v) == IF v = Absent THEN d ELSE Put(d, k, v)

GET == <<"G", "E", "T">>

POST == <<"P", "O", "S", "T">>

HTTP11 == <<"H", "T", "T", "P", "/", "1", ".", "1">>

Letters == <<"a", "b", "c", "d", "e", "f", "g", "h">>

\* The body of n bytes: its bytes differ, so a prefix is told from any other part.
Body(n) == SubSeq(Letters, 1, n)

Bodies == {Body(n) : n \in 0..MaxBody}

ContentLengths ==
    {str(n) : n \in 0..(MaxBody + 1)}
    \cup {<<"1", "0">>, <<" ", "1">>, <<"-", "1">>, <<"1", "a", "m", "f">>, <<"a", "m", "f">>, <<>>}

HeaderSets ==
    {EmptyDict}
    \cup {[k \in {"Content-Length"} |-> v] : v \in ContentLengths}
    \cup {[k \in {"content-length"} |-> <<"1">>]}

RichRequests ==
    {[method |-> m, path |-> <<"/", "a">>, version |-> HTTP11, headers |-> h, body |-> b] :
        m \in {GET, POST}, h \in HeaderSets, b \in Bodies}

FewRequests ==
    {EmptyDict,
     [method |-> POST, path |-> <<"/", "a">>, version |-> HTTP11, body |-> Body(MaxBody)],
     [method |-> GET, path |-> <<"/">>, headers |-> [k \in {"Content-Length"} |-> <<"1">>],
      body |-> Body(MaxBody)]}

RichResponses ==
    {[version |-> HTTP11, status |-> <<"2", "0", "0">>, reason |-> <<"O", "K">>, headers |-> h, body |-> b] :
        h \in HeaderSets, b \in Bodies}

FewResponses ==
    {EmptyDict,
     [version |-> HTTP11, status |-> <<"2", "0", "0">>, reason |-> <<"O", "K">>,
      headers |-> [k \in {"Content-Length"} |-> <<"1">>], body |-> Body(MaxBody)]}

HttpHost == <<"h", "t", "t", "p", ":", "/", "/", "h">>

HttpsHost == <<"h", "t", "t", "p", "s", ":", "/", "/", "h">>

Record(request, response) ==
    [host |-> HttpHost, ip_address |-> <<"1", "0", ".", "0", ".", "0", ".", "1">>, time |-> <<"0", "1", ":", "1", "5", ":", "3", "0", " ", "P", "M">>,
     request |-> request, response |-> response]

\* Records that vary the bodies and the Content-Length headers.
BodyRecords ==
    {Record(q, r) : q \in RichRequests, r \in FewResponses}
    \cup {Record(q, r) : q \in FewRequests, r \in RichResponses}

\* Records that vary which of host, ip_address, path and method are present.
UrlRecords ==
    {Opt(Opt([request  |-> Opt(Opt(EmptyDict, "path", p), "method", m),
              response |-> EmptyDict], "host", h), "ip_address", ip) :
        h \in {Absent, HttpHost, HttpsHost},
        p \in {Absent, <<"/">>, <<"/", "a">>, <<"b">>},
        m \in {Absent, GET, POST},
        ip \in {Absent, <<"1", "0", ".", "0", ".", "0", ".", "1">>}}

Fmt2(n) == <<Digits[(n \div 10) + 1], Digits[(n % 10) + 1]>>

FmtTime(hour, minute, second, am_pm) ==
    Fmt2(hour) \o <<":">> \o Fmt2(minute) \o <<":">> \o Fmt2(second) \o <<" ">> \o am_pm

WellFormedTimes ==
    {FmtTime(h, ms[1], ms[2], ap) :
        h \in 1..12, ms \in {<<0, 0>>, <<15, 30>>, <<59, 59>>}, ap \in {<<"A", "M">>, <<"P", "M">>}}

OtherTimes ==
    {<<"g", "a", "r", "b", "a", "g", "e">>, <<"1", "3", ":", "0", "0", " ", "P", "M">>, <<"2", "5", ":", "0", "0", ":", "0", "0", " ", "A", "M">>, <<"0", "0", ":", "6", "1", ":", "0", "0", " ", "P", "M">>, <<"1", "2", ":", "0", "0", ":", "0", "0">>, <<"1", "x", ":", "0", "0", ":", "0", "0", " ", "A", "M">>,
     <<"1", "3", ":", "0", "0", ":", "0", "0", " ", "P", "M">>, <<"0", "0", ":", "3", "0", ":", "0", "0", " ", "P", "M">>, <<"1", "0", ":", "0", "0", ":", "0", "0", " ", "X", "M">>, <<"1", ":", "0", "5", ":", "0", "9", " ", "P", "M">>, <<"-", "1", ":", "0", "0", ":", "0", "0", " ", "A", "M">>,
     <<>>, NonString}

TimeRecords ==
    {Opt([request |-> EmptyDict, response |-> EmptyDict, time |-> t], "host", h) :
        t \in WellFormedTimes \cup OtherTimes, h \in {Absent, HttpHost}}

Dates ==
    {<<"M", "o", "n", ",", " ", "0", "1", " ", "J", "a", "n", " ", "2", "0", "2", "4", " ", "1", "2", ":", "0", "0", ":", "0", "0", " ", "G", "M", "T">>, <<"S", "u", "n", ",", " ", "6", " ", "N", "o", "v", " ", "1", "9", "9", "4", " ", "0", "8", ":", "4", "9", ":", "3", "7", " ", "U", "T", "C">>, <<"g", "a", "r", "b", "a", "g", "e">>,
     <<"M", "o", "n", ",", " ", "3", "2", " ", "J", "a", "n", " ", "2", "0", "2", "4", " ", "1", "2", ":", "0", "0", ":", "0", "0", " ", "G", "M", "T">>, <<"M", "o", "n", ",", " ", "0", "1", " ", "J", "a", "n", " ", "2", "0", "2", "4", " ", "2", "4", ":", "0", "0", ":", "0", "0", " ", "G", "M", "T">>,
     <<"M", "o", "n", "d", "a", "y", ",", " ", "0", "1", "-", "J", "a", "n", "-", "2", "4", " ", "1", "2", ":", "0", "0", ":", "0", "0", " ", "G", "M", "T">>, NonString}

DateRecords ==
    {[host |-> HttpHost, request |-> [path |-> <<"/">>],
      response |-> Opt([headers |-> [k \in {name} |-> d]], "status", st)] :
        name \in {"Date", "date"}, d \in Dates, st \in {Absent, <<"2", "0", "0">>, <<"2", "x">>}}

\* Records without a request or without a response.
BrokenRecords == {EmptyDict, [request |-> EmptyDict], [host |-> HttpHost, response |-> EmptyDict]}

RawRecords == BodyRecords \cup UrlRecords \cup TimeRecords \cup DateRecords \cup BrokenRecords

\* The constructor's arguments: a raw record, or no data at all.
Args ==
    {[isDict |-> TRUE, d |-> d, index |-> 0] : d \in RawRecords}
    \cup {[isDict |-> FALSE, d |-> EmptyDict, index |-> 0]}

\* The keyword arguments of a replay call: each override is given or left out.
ReplayArgs ==
    {Opt(Opt(Opt(hs, "url", u), "method", m), "body", b) :
        hs \in {EmptyDict, [headers |-> EmptyDict],
                [headers |-> [k \in {"Content-Length"} |-> <<"9">>]]},
        u \in {Absent, <<"h", "t", "t", "p", ":", "/", "/", "o", "/", "x">>},
        m \in {Absent, GET, POST},
        b \in {Absent, <<>>, <<"z", "z">>}}

Accessors ==
    {"get_request_body", "get_request_method", "get_request_version",
     "get_request_headers", "get_request_header", "get_request_path",
     "get_response_version", "get_response_status", "get_response_reason",
     "get_response_headers", "get_response_header", "get_response_body", "__len__"}

\* The call obj.<name>(); the two header accessors are asked for Content-Length.
Accessor(self, name) ==
    CASE name = "get_request_body" -> get_request_body(self)
      [] name = "get_request_method" -> get_request_method(self)
      [] name = "get_request_version" -> get_request_version(self)
      [] name = "get_request_headers" -> get_request_headers(self)
      [] name = "get_request_header" -> get_request_header(self, "content-length", <<>>)
      [] name = "get_request_path" -> get_request_path(self)
      [] name = "get_response_version" -> get_response_version(self)
      [] name = "get_response_status" -> get_response_status(self)
      [] name = "get_response_reason" -> get_response_reason(self)
      [] name = "get_response_headers" -> get_response_headers(self)
      [] name = "get_response_header" -> get_response_header(self, "content-length", <<>>)
      [] name = "get_response_body" -> get_response_body(self)
      [] name = "__len__" -> Burp__len__(self)

VARIABLES
    arg,   \* the constructor's argument: [isDict, d, index]
    pc,     \* "new", "constructed" or "raised"
    burp,   \* the Burp object's attributes
    err,    \* the exception the constructor raised, NoErr if none
    call,   \* the last call made on the object and what it returned
    ncalls  \* how many calls were made on the object

vars == <<arg, pc, burp, err, call, ncalls>>

NoCall == [op |-> "none"]

Init ==
    /\ arg \in Args
    /\ pc = "new"
    /\ burp = EmptyDict
    /\ err = NoErr
    /\ call = NoCall
    /\ ncalls = 0

\* burp = Burp(arg): the constructor runs to its end or to the exception it raises.
Construct ==
    /\ pc = "new"
    /\ LET st == Burp__init__(arg, arg.index)
       IN  /\ burp' = st.self
           /\ err' = st.err
           /\ pc' = IF st.err = NoErr THEN "constructed" ELSE "raised"
    /\ UNCHANGED <<arg, call, ncalls>>

\* Scanner().replay(burp, **kw)
Replay(kw) ==
    /\ pc = "constructed"
    /\ ncalls < MaxCalls
    /\ ncalls' = ncalls + 1
    /\ LET r == replay(burp, kw)
       IN  /\ call' = [op |-> "replay", kw |-> kw, raised |-> r.raised,
                       value |-> r.value, before |-> burp]
           /\ burp' = IF ~r.raised /\ "headers" \in DOMAIN burp._request
                      THEN [burp EXCEPT !._request["headers"] = r.objs.self]
                      ELSE burp
    /\ UNCHANGED <<arg, pc, err>>

\* burp.<name>(), or len(burp)
Access(name) ==
    /\ pc = "constructed"
    /\ ncalls < MaxCalls
    /\ ncalls' = ncalls + 1
    /\ LET r == Accessor(burp, name)
       IN  call' = [op |-> name, kw |-> EmptyDict, raised |-> r.raised,
                    value |-> r.value, before |-> burp]
    /\ UNCHANGED <<arg, pc, burp, err>>

Next ==
    \/ Construct
    \/ \E kw \in ReplayArgs : Replay(kw)
    \/ \E name \in Accessors : Access(name)

Spec == Init /\ [][Next]_vars

(***************************************************************************)
(* The claims                                                              *)
(***************************************************************************)
RawRequest == arg.d["request"]

RawResponse == arg.d["response"]

\* The Content-Length value a raw header mapping declares, in either spelling
\* of the name; <<>> if it declares none.
Declared(raw) ==
    LET headers == get(raw, "headers", EmptyDict)
    IN  IF "Content-Length" \in DOMAIN headers THEN headers["Content-Length"]
        ELSE IF "content-length" \in DOMAIN headers THEN headers["content-length"]
        ELSE <<>>

\* Whether the header value v is the length n.
DeclaresLength(v, n) == strip(v) = str(n)

Lengths == 0..(MaxBody + 10)

\* The first n elements of s, all of s if it is shorter.
Prefix(s, n) == [i \in 1..(IF n < Len(s) THEN n ELSE Len(s)) |-> s[i]]

\* C1: when the response declares Content-Length n, the body of the
\* constructed record, and len(record), is the first n bytes of the raw body:
\* of length n if the raw body had at least n bytes, the raw body otherwise.
C1_ResponseBodyReconciled ==
    \A n \in Lengths :
        (pc = "constructed" /\ arg.isDict /\ DeclaresLength(Declared(RawResponse), n)) =>
            LET raw == get(RawResponse, "body", <<>>)
            IN  /\ burp._response["body"] = Prefix(raw, n)
                /\ Len(raw) >= n => Len(burp._response["body"]) = n
                /\ Len(raw) < n => burp._response["body"] = raw
                /\ call.op = "__len__" =>
                      ~call.raised /\ call.value = (IF Len(raw) >= n THEN n ELSE Len(raw))

\* A response that declares one byte and holds two is cut to one, and len() says so.
C1_Witness ==
    /\ pc = "constructed"
    /\ arg.isDict
    /\ DeclaresLength(Declared(RawResponse), 1)
    /\ Len(get(RawResponse, "body", <<>>)) = 2
    /\ call.op = "__len__"
    /\ call.value = 1

\* C2: when the request declares a Content-Length: a value without "amf" and
\* a raw body of at least the declared length give a body of exactly that
\* length; a value with "amf" lets construction complete, the body untouched.
C2_RequestBodyReconciled ==
    (pc # "new" /\ arg.isDict /\ "request" \in DOMAIN arg.d) =>
        LET v   == Declared(RawRequest)
            raw == get(RawRequest, "body", <<>>)
        IN  /\ \A n \in Lengths :
                  (pc = "constructed" /\ DeclaresLength(v, n) /\ Len(raw) >= n) =>
                      Len(burp._request["body"]) = n
            /\ Contains(v, <<"a", "m", "f">>) =>
                  /\ ~(pc = "raised" /\ err.line \in 138..143)
                  /\ pc = "constructed" => burp._request["body"] = raw

\* Whether every value the raw record d holds is one its field allows: the
\* status and the declared lengths are numbers, the capture time is a str.
WellFormedWherePresent(d) ==
    /\ "status" \in DOMAIN d["response"] => IsNumber(d["response"]["status"])
    /\ \A side \in {"request", "response"} :
          Declared(d[side]) = <<>> \/ \E n \in Lengths : DeclaresLength(Declared(d[side]), n)
    /\ get(d, "time", None) # NonString

\* C3: a raw record with a request and a response mapping is constructed
\* whichever other fields are absent, and each absent field has its default.
C3_AbsentFieldsDefault ==
    (pc # "new" /\ arg.isDict /\ {"request", "response"} \subseteq DOMAIN arg.d
        /\ WellFormedWherePresent(arg.d)) =>
        /\ pc = "constructed"
        /\ "host" \notin DOMAIN arg.d => burp.host = None
        /\ "ip_address" \notin DOMAIN arg.d => burp.ip_address = None
        /\ "time" \notin DOMAIN arg.d => burp.time = NoAttr
        /\ "body" \notin DOMAIN RawRequest => burp._request["body"] = <<>>
        /\ "body" \notin DOMAIN RawResponse => burp._response["body"] = <<>>
        /\ "headers" \notin DOMAIN RawRequest => burp._request["headers"] = EmptyDict
        /\ "headers" \notin DOMAIN RawResponse => burp._response["headers"] = EmptyDict
        /\ "status" \notin DOMAIN RawResponse => burp._response["status"] = 0

\* Whether t is "hh:mm:ss AM" or "hh:mm:ss PM" with hh in 1..12.
WellFormedTime(t) ==
    /\ Len(t) = 11
    /\ \A i \in {1, 2, 4, 5, 7, 8} : IsDigit(t[i])
    /\ t[3] = ":" /\ t[6] = ":" /\ t[9] = " "
    /\ t[10] \in {"A", "P"} /\ t[11] = "M"
    /\ 10 * DigitVal(t[1]) + DigitVal(t[2]) \in 1..12
    /\ 10 * DigitVal(t[4]) + DigitVal(t[5]) < 60
    /\ 10 * DigitVal(t[7]) + DigitVal(t[8]) < 60

\* The raw Date header of the response, in either spelling; <<>> if none.
RawDate ==
    LET headers == get(RawResponse, "headers", EmptyDict)
    IN  IF "Date" \in DOMAIN headers THEN headers["Date"]
        ELSE IF "date" \in DOMAIN headers THEN headers["date"]
        ELSE <<>>

\* C4: a capture time or a Date header that does not parse (wrong format,
\* field out of range, wrong type) never aborts construction: the date is
\* None, the capture time 00:00:00, and the capture time is a valid
\* time of day or absent.
C4_ParseFailureNeverAborts ==
    (pc # "new" /\ arg.isDict /\ {"request", "response"} \subseteq DOMAIN arg.d) =>
        LET t == get(arg.d, "time", None)
        IN  /\ ~(pc = "raised" /\ err.line \in 91..124)
            /\ (RawDate \in {NonString, <<"g", "a", "r", "b", "a", "g", "e">>} /\ pc = "constructed") =>
                  burp.datetime = None
            /\ (t \in {NonString, <<"g", "a", "r", "b", "a", "g", "e">>, <<"2", "5", ":", "0", "0", ":", "0", "0", " ", "A", "M">>}) => burp.time = <<0, 0, 0>>
            /\ \/ burp.time = NoAttr
               \/ ValidTime(burp.time[1], burp.time[2], burp.time[3])

\* C5: a capture time "hh:mm:ss AM|PM" with hh in 1..12 is parsed with the
\* minute and second unchanged and the hour 0 for 12 AM, hh + 12 for a PM
\* hour under 12, and hh otherwise.
C5_CaptureTimeConverted ==
    (pc # "new" /\ arg.isDict /\ (pc = "raised" => err.line > 124)
        /\ WellFormedTime(get(arg.d, "time", None))) =>
        LET t  == arg.d["time"]
            hh == 10 * DigitVal(t[1]) + DigitVal(t[2])
            pm == t[10] = "P"
        IN  /\ burp.time[2] = 10 * DigitVal(t[4]) + DigitVal(t[5])
            /\ burp.time[3] = 10 * DigitVal(t[7]) + DigitVal(t[8])
            /\ (hh = 12 /\ ~pm) => burp.time[1] = 0
            /\ (hh < 12 /\ pm) => burp.time[1] = hh + 12
            /\ (hh = 12 /\ pm) \/ (hh < 12 /\ ~pm) => burp.time[1] = hh

\* "12:59:59 PM" has been parsed on a constructed record, to 12:59:59.
C5_Witness ==
    /\ pc = "constructed"
    /\ "time" \in DOMAIN arg.d
    /\ arg.d["time"] = <<"1", "2", ":", "5", "9", ":", "5", "9", " ", "P", "M">>
    /\ burp.time = <<12, 59, 59>>

\* Whether the last call was a replay that returned, with no override given.
ReplayedPlain == call.op = "replay" /\ ~call.raised /\ call.kw = EmptyDict

C8_EmptyShellDefaults ==
    (pc = "constructed" /\ ~arg.isDict) =>
        /\ burp.host = None
        /\ burp.ip_address = None
        /\ burp.replayed = <<>>
        /\ call.op \in Accessors => ~call.raised
        /\ call.op \in {"get_request_headers", "get_response_headers"} =>
              call.value = EmptyDict
        /\ call.op \in {"get_request_body", "get_response_body"} => call.value = <<>>
        /\ call.op = "__len__" => call.value = 0

\* C9: the url of a constructed record is the join of the host (None if
\* absent) with the request path, "/" standing for a path that is absent.
C9_UrlJoinsHostAndPath ==
    (pc = "constructed" /\ arg.isDict) =>
        burp.url = urlparse(urljoin(get(arg.d, "host", None), get(RawRequest, "path", <<"/">>)))

\* C10: what the parameter parser read when it was called during
\* construction (method, headers, URL, body) is what the constructed record
\* holds.
C10_ParametersFromNormalizedRequest ==
    (pc = "constructed" /\ arg.isDict) =>
        /\ burp.parameters.method = burp._request["method"]
        /\ burp.parameters.headers = burp._request["headers"]
        /\ burp.parameters.url = burp.url
        /\ burp.parameters.body = burp._request["body"]

====
